---- MODULE Spec2Model ----
(***************************************************************************)
(* sanic_dantic/basic_definition.py: ParsedArgsObj, DanticModelObj and     *)
(* validate(request, dmo).                                                 *)
(*                                                                         *)
(* The descriptor is built once by DanticModelObj.__init__; validate runs  *)
(* the stages header, path, query, form-or-body, all of one request, one   *)
(* stage per step, and ends by storing and returning the merged result or  *)
(* by one of the except clauses.                                           *)
(***************************************************************************)
EXTENDS Integers, Sequences, FiniteSets, TLC

VARIABLES
    dmo,            \* the DanticModelObj shared by the requests, or NoDmo
    ctor,           \* the call of DanticModelObj.__init__: arguments and exception
    error_log,      \* what sanic.log.error_logger.error received, in order
    cls_fields_set, \* the class attribute ParsedArgsObj.__fields_set__
    request,        \* per request: headers, match_info, args, form, json, ctx
    frame           \* per request: the activation of validate(request, dmo)

vars == <<dmo, ctor, error_log, cls_fields_set, request, frame>>

(***************************************************************************)
(* Bounds.                                                                 *)
(***************************************************************************)
\* parameters (header, path, query, form and JSON entries) one request carries
MaxParams == 2
\* requests validated concurrently against one descriptor (SpecShared)
NumRequests == 2

\* parameter names
Keys == {"a", "b"}

(***************************************************************************)
(* Python values.                                                          *)
(***************************************************************************)
None == [cls |-> "NoneType"]
True == [cls |-> "bool", v |-> TRUE]
PyStr(s) == [s |-> s]
PyInt(i) == [i |-> i]
PySet(x) == [set |-> x]
IsStr(v) == "s" \in DOMAIN v
IsInt(v) == "i" \in DOMAIN v

Truthy(x) == x # None

EmptyDict == <<>>

\* dict.update(other)
Update(d, other) ==
    [k \in DOMAIN d \cup DOMAIN other |->
        IF k \in DOMAIN other THEN other[k] ELSE d[k]]

(***************************************************************************)
(* The schema engine (pydantic): a model class is built from a mapping of  *)
(* raw values; it coerces every field it declares, ignores the other keys, *)
(* and either yields an object (dict(), __fields_set__) or raises a        *)
(* ValidationError listing the failing fields in declaration order.        *)
(***************************************************************************)
DigitVal == ("1" :> 1) @@ ("2" :> 2) @@ ("3" :> 3) @@ ("4" :> 4) @@ ("5" :> 5)

\* an int field takes an int or a string of digits; a list is refused
Coercible(v) == IsInt(v) \/ (IsStr(v) /\ v.s \in DOMAIN DigitVal)
Coerce(v) == IF IsInt(v) THEN v ELSE PyInt(DigitVal[v.s])

NoErr == [loc |-> <<>>, msg |-> ""]

FieldError(model, raw, f) ==
    IF f \in DOMAIN raw
    THEN IF Coercible(raw[f]) THEN NoErr
         ELSE [loc |-> <<f>>, msg |-> "value is not a valid integer"]
    ELSE IF f \in model.required
         THEN [loc |-> <<f>>, msg |-> "field required"]
         ELSE NoErr

IsErr(e) == e # NoErr

\* e.errors()
FieldErrors(model, raw) ==
    SelectSeq([i \in 1..Len(model.fields) |->
                  FieldError(model, raw, model.fields[i])], IsErr)

FieldNames(model) == {model.fields[i] : i \in 1..Len(model.fields)}

\* model(**raw): the object, or the ValidationError it raises
Construct(model, raw) ==
    LET errs == FieldErrors(model, raw) IN
    IF errs # <<>>
    THEN [ok |-> FALSE,
          exc |-> [type |-> "ValidationError", model |-> model.name,
                   errors |-> errs]]
    ELSE [ok |-> TRUE,
          dict |-> [f \in FieldNames(model) |->
                      IF f \in DOMAIN raw THEN Coerce(raw[f])
                      ELSE model.default[f]],
          fields_set |-> FieldNames(model) \cap DOMAIN raw]

Model(name, fields, required, default) ==
    [cls |-> "type", name |-> name, is_base_model |-> TRUE, fields |-> fields,
     required |-> required, default |-> default]

HeaderModel ==
    Model("HeaderModel", <<"a", "b">>, {}, [a |-> PyInt(10), b |-> PyInt(11)])
PathModel ==
    Model("PathModel", <<"a", "b">>, {"a"}, [b |-> PyInt(21)])
QueryModel ==
    Model("QueryModel", <<"b", "a">>, {"b"}, [a |-> PyInt(30)])
FormModel ==
    Model("FormModel", <<"a", "b">>, {"a", "b"}, <<>>)
BodyModel ==
    Model("BodyModel", <<"a", "b">>, {}, [a |-> PyInt(40), b |-> PyInt(41)])
AllModel ==
    Model("AllModel", <<"a", "b">>, {"a"}, [b |-> PyInt(51)])

\* a class that does not inherit from pydantic.BaseModel
NotAModel == [cls |-> "type", name |-> "Plain", is_base_model |-> FALSE]

(***************************************************************************)
(* Requests.  A request carries at most MaxParams parameter entries; the   *)
(* well-formed value of each source is its own, so that the origin of a    *)
(* value stays visible after a merge, and "x" is no integer anywhere.      *)
(***************************************************************************)
Sources == {"header", "path", "query", "form", "json"}

GoodVal(src) ==
    CASE src = "header" -> PyStr("1")
      [] src = "path"   -> PyStr("2")
      [] src = "query"  -> PyStr("3")
      [] src = "form"   -> PyStr("4")
      [] src = "json"   -> PyInt(5)

BadVal == PyStr("x")

Entries ==
    {[src |-> s, key |-> k, val |-> v] :
        s \in Sources, k \in Keys, v \in {"good", "bad"}}

EntrySets[n \in Nat] ==
    IF n = 0 THEN {{}}
    ELSE EntrySets[n - 1]
         \cup {S \cup {e} : S \in EntrySets[n - 1], e \in Entries}

Of(E, src, k) == {e \in E : e.src = src /\ e.key = k}

\* headers, path parameters and JSON members hold one value per key
SingleValued(E) ==
    \A s \in {"header", "path", "json"} : \A k \in Keys :
        Cardinality(Of(E, s, k)) <= 1

ValueOf(e) == IF e.val = "good" THEN GoodVal(e.src) ELSE BadVal

\* a mapping key -> value
Mapping(E, src) ==
    [k \in {e.key : e \in {x \in E : x.src = src}} |->
        ValueOf(CHOOSE e \in Of(E, src, k) : TRUE)]

\* a mapping key -> list of values (request.args, request.form)
MultiMapping(E, src) ==
    [k \in {e.key : e \in {x \in E : x.src = src}} |->
        IF Cardinality(Of(E, src, k)) = 1
        THEN <<ValueOf(CHOOSE e \in Of(E, src, k) : TRUE)>>
        ELSE <<GoodVal(src), BadVal>>]

\* request.json: raises (unparseable body), a non-mapping (None, a JSON
\* list or scalar), or a mapping
JsonKinds == {"raises", "nonmap", "map"}

Unset == [cls |-> "Unset"]

MkRequest(E, jk) ==
    [headers    |-> Mapping(E, "header"),
     match_info |-> Mapping(E, "path"),
     args       |-> MultiMapping(E, "query"),
     form       |-> MultiMapping(E, "form"),
     json       |-> IF jk = "map"
                    THEN [kind |-> "map", map |-> Mapping(E, "json")]
                    ELSE [kind |-> jk],
     ctx_params |-> Unset]

Requests ==
    {MkRequest(E, jk) :
        E \in {S \in EntrySets[MaxParams] : SingleValued(S)},
        jk \in JsonKinds}

NoRequest == [cls |-> "NoRequest"]

(***************************************************************************)
(* class ParsedArgsObj(dict)                                               *)
(***************************************************************************)
\* self.__fields_set__ read inside the class: __setattr__ stores into the
\* dict, so the instance never has the attribute and the read finds the
\* class attribute
ReadFieldsSet(self, cls) == cls

\* self.__fields_set__ = value: ParsedArgsObj.__setattr__ is
\* self.update({key: value})
SetAttr(self, key, value) == Update(self, key :> value)

\* faulty variant: self.__fields_set__.update(obj.__fields_set__), which
\* grows the set every instance shares
ClassFieldsSetAfterCombine_InPlace(cls, obj) == cls \cup obj.fields_set

\* what __combine_base_model__ leaves in the class attribute: union() builds
\* a new set, the class-level set is not touched
ClassFieldsSetAfterCombine(cls, obj) == cls

\* faulty variant: keys already present keep their value (setdefault)
CombineBaseModel_KeepsEarlier(self, cls, obj) ==
    LET s1 == IF obj.fields_set # {}
              THEN SetAttr(self, "__fields_set__",
                           PySet(ReadFieldsSet(self, cls) \cup obj.fields_set))
              ELSE self
    IN  Update(obj.dict, s1)

\* parsed_args.__combine_base_model__(obj)
CombineBaseModel(self, cls, obj) ==
    LET s1 == IF obj.fields_set # {}
              THEN SetAttr(self, "__fields_set__",
                           PySet(ReadFieldsSet(self, cls) \cup obj.fields_set))
              ELSE self
    IN  Update(s1, obj.dict)

(***************************************************************************)
(* class DanticModelObj                                                    *)
(***************************************************************************)
Handler == [cls |-> "function", name |-> "on_error"]
BadPolicy == [cls |-> "str", v |-> "strict"]

IsCallable(x) == x = Handler

SlotArgs(m) == {None, m, NotAModel}
ErrorArgs == {None, True, Handler, BadPolicy}

CtorArgs ==
    [header : SlotArgs(HeaderModel), query : SlotArgs(QueryModel),
     path : SlotArgs(PathModel), body : SlotArgs(BodyModel),
     form : SlotArgs(FormModel), all : SlotArgs(AllModel),
     error : ErrorArgs]

\* faulty variant: the exclusion of body and form is not checked
BodyAndForm_Unchecked(body, form) == FALSE

\* if body and form
BodyAndForm(body, form) == Truthy(body) /\ Truthy(form)

\* if model and BaseModel not in getmro(model), for one model
NotPydantic(model) == Truthy(model) /\ ~model.is_base_model

\* if error and error is not True and not isinstance(error, Callable)
BadErrorHandler(error) ==
    Truthy(error) /\ error # True /\ ~IsCallable(error)

MsgBodyForm == "sanic-dantic: body and form cannot be used at the same time."
MsgModel == "sanic-dantic: model must inherited from Pydantic.BaseModel"
MsgError == "sanic-dantic: the error handler must be a callable function or True"

\* the AssertionError raised inside __init__'s try block, or None
InitAssertion(a) ==
    IF BodyAndForm(a.body, a.form) THEN PyStr(MsgBodyForm)
    ELSE IF \E m \in {a.header, a.path, a.query, a.form, a.body, a.all} :
                NotPydantic(m)
         THEN PyStr(MsgModel)
    ELSE IF BadErrorHandler(a.error) THEN PyStr(MsgError)
    ELSE None

NoDmo == [cls |-> "NoDmo"]
NoCall == [cls |-> "NoCall"]

ServerError(msg) == [type |-> "ServerError", message |-> msg]
InvalidUsage(msg) == [type |-> "InvalidUsage", message |-> msg]

(***************************************************************************)
(* validate(request, dmo)                                                  *)
(***************************************************************************)
\* {key: val[0] if len(val) == 1 else val for key, val in mapping.items()}
Collapse(multi) ==
    [k \in DOMAIN multi |->
        IF Len(multi[k]) = 1 THEN multi[k][1] ELSE [l |-> multi[k]]]

StageOrder == <<"header", "path", "query", "form_or_body", "all">>

StageIndex(stage) == CHOOSE i \in 1..Len(StageOrder) : StageOrder[i] = stage

\* the if / elif that guards a stage
Configured(d, stage) ==
    CASE stage = "header"       -> Truthy(d.header)
      [] stage = "path"         -> Truthy(d.path)
      [] stage = "query"        -> Truthy(d.query)
      [] stage = "form_or_body" -> Truthy(d.form) \/ Truthy(d.body)
      [] stage = "all"          -> Truthy(d.all)

\* the first configured stage after position i, or the store at line 199
PcAfter(d, i) ==
    LET later == {j \in (i + 1)..Len(StageOrder) : Configured(d, StageOrder[j])}
    IN  IF later = {} THEN "store"
        ELSE StageOrder[CHOOSE j \in later : \A m \in later : j <= m]

\* an exception other than ValidationError raised inside the try block
Raised(type, msg) == [ok |-> FALSE, exc |-> [type |-> type, message |-> msg]]

\* faulty variant: the form fields replace every JSON body that is no mapping
BodyParams_FormWhenNotMapping(req) ==
    IF req.json.kind = "map" THEN req.json.map ELSE Collapse(req.form)

\* lines 161-170: the body part of the raw mapping of the all stage
BodyParams(req) ==
    IF req.json.kind = "raises" THEN Collapse(req.form)
    ELSE IF req.json.kind = "map" THEN req.json.map
    ELSE EmptyDict

\* lines 173-177: params.update(...) four times
AllParams(req) ==
    Update(Update(Update(Update(EmptyDict, Collapse(req.args)),
                         BodyParams(req)),
                  req.headers),
           req.match_info)

\* what a stage evaluates before parsed_args.__combine_base_model__(obj)
Attempt(d, req, stage) ==
    CASE stage = "header" -> Construct(d.header, req.headers)
      [] stage = "path"   -> Construct(d.path, req.match_info)
      [] stage = "query"  -> Construct(d.query, Collapse(req.args))
      [] stage = "form_or_body" ->
            IF Truthy(d.form) THEN Construct(d.form, Collapse(req.form))
            ELSE IF req.json.kind = "raises"
                 THEN Raised("InvalidUsage", "Failed when parsing body as json")
            ELSE IF req.json.kind = "nonmap"
                 THEN Raised("TypeError", "argument after ** must be a mapping")
            ELSE Construct(d.body, req.json.map)
      [] stage = "all"    -> Construct(d.all, AllParams(req))

\* faulty variant: the message of the last failure, e.errors()[-1]
LastMessage(e) ==
    e.errors[Len(e.errors)].loc[1] \o " " \o e.errors[Len(e.errors)].msg

\* f'{error_msg.get("loc")[0]} {error_msg.get("msg")}' of e.errors()[0]
FirstMessage(e) == e.errors[1].loc[1] \o " " \o e.errors[1].msg

HandlerOutcomes == {"returns", "raises"}

\* dmo.error(request, e), when the call returns
HandlerResult(d, r, e) == [call |-> d.error.name, args |-> <<r, e>>]
\* ... and when the handler itself raises
HandlerError == [type |-> "HandlerError", message |-> "raised by dmo.error"]

\* faulty variant: raise dmo.error(message) for a callable policy
OnValidationError_RaisesErrorType(d, r, e, h) ==
    IF d.error = True
    THEN [outcome |-> "raised", value |-> e, logged |-> <<>>]
    ELSE IF Truthy(d.error)
    THEN [outcome |-> "raised",
          value |-> [type |-> d.error.name, message |-> FirstMessage(e)],
          logged |-> <<>>]
    ELSE [outcome |-> "raised", value |-> InvalidUsage(FirstMessage(e)),
          logged |-> <<FirstMessage(e)>>]

\* faulty variant: error=True is not told apart from no policy
OnValidationError_TrueAsDefault(d, r, e, h) ==
    IF Truthy(d.error) /\ d.error # True
    THEN IF h = "returns"
         THEN [outcome |-> "returned", value |-> HandlerResult(d, r, e),
               logged |-> <<>>]
         ELSE [outcome |-> "raised", value |-> HandlerError, logged |-> <<>>]
    ELSE [outcome |-> "raised", value |-> InvalidUsage(FirstMessage(e)),
          logged |-> <<FirstMessage(e)>>]

\* except ValidationError as e: how validate is left and what is logged
OnValidationError(d, r, e, h) ==
    IF d.error = True
    THEN [outcome |-> "raised", value |-> e, logged |-> <<>>]
    ELSE IF Truthy(d.error)
    THEN IF h = "returns"
         THEN [outcome |-> "returned", value |-> HandlerResult(d, r, e),
               logged |-> <<>>]
         ELSE [outcome |-> "raised", value |-> HandlerError, logged |-> <<>>]
    ELSE [outcome |-> "raised", value |-> InvalidUsage(FirstMessage(e)),
          logged |-> <<FirstMessage(e)>>]

\* except Exception as e: raise ServerError(str(e))
OnException(e) ==
    [outcome |-> "raised", value |-> ServerError(e.message), logged |-> <<>>]

\* faulty variant: the partial result is stored before the error leaves
CtxAfterFailure_Stores(ctx_params, parsed_args) == parsed_args

\* request.ctx.params after validate is left from a failed stage
CtxAfterFailure(ctx_params, parsed_args) == ctx_params

\* request.ctx.params = parsed_args
CtxAfterStore(ctx_params, parsed_args) == parsed_args

NoFrame == [cls |-> "NoFrame"]

\* parsed_args = ParsedArgsObj()
NewParsedArgs(cls) == EmptyDict

FrameAtEntry(d, cls) ==
    [pc |-> PcAfter(d, 0), parsed_args |-> NewParsedArgs(cls),
     done |-> <<>>, body_params |-> None, params |-> None, exc |-> None,
     outcome |-> "running", value |-> None]

(***************************************************************************)
(* Actions.                                                                *)
(***************************************************************************)
Reqs == DOMAIN request

\* DanticModelObj(header, query, path, body, form, all, error)
NewDescriptor ==
    /\ ctor = NoCall
    /\ \E a \in CtorArgs :
        LET err == InitAssertion(a) IN
        IF err = None
        THEN /\ dmo' = a
             /\ ctor' = [args |-> a, raised |-> None]
             /\ error_log' = error_log
        ELSE /\ dmo' = NoDmo
             /\ ctor' = [args |-> a, raised |-> ServerError(err.s)]
             /\ error_log' = Append(error_log, err.s)
    /\ UNCHANGED <<cls_fields_set, request, frame>>

\* a request arrives and validate(request, dmo) is entered
Receive(r) ==
    /\ dmo # NoDmo
    /\ request[r] = NoRequest
    /\ \E req \in Requests :
        request' = [request EXCEPT ![r] = req]
    /\ frame' = [frame EXCEPT ![r] = FrameAtEntry(dmo, cls_fields_set)]
    /\ UNCHANGED <<dmo, ctor, error_log, cls_fields_set>>

\* one stage of the try block, with the except clause that ends it
Stage(r, stage) ==
    /\ frame[r] # NoFrame
    /\ frame[r].pc = stage
    /\ LET att == Attempt(dmo, request[r], stage) IN
       \E h \in HandlerOutcomes :
        LET exit == IF att.ok THEN None
                    ELSE IF att.exc.type = "ValidationError"
                    THEN OnValidationError(dmo, r, att.exc, h)
                    ELSE OnException(att.exc)
        IN
        IF att.ok
        THEN /\ frame' = [frame EXCEPT
                    ![r].parsed_args =
                        CombineBaseModel(@, cls_fields_set, att),
                    ![r].done = Append(@, stage),
                    ![r].body_params = IF stage = "all"
                                       THEN BodyParams(request[r]) ELSE @,
                    ![r].params = IF stage = "all"
                                  THEN AllParams(request[r]) ELSE @,
                    ![r].pc = PcAfter(dmo, StageIndex(stage))]
             /\ cls_fields_set' =
                    ClassFieldsSetAfterCombine(cls_fields_set, att)
             /\ UNCHANGED <<request, error_log>>
        ELSE /\ frame' = [frame EXCEPT
                    ![r].pc = IF att.exc.type = "ValidationError"
                              THEN "FAILED" ELSE "ERRORED",
                    ![r].body_params = IF stage = "all"
                                       THEN BodyParams(request[r]) ELSE @,
                    ![r].params = IF stage = "all"
                                  THEN AllParams(request[r]) ELSE @,
                    ![r].exc = att.exc,
                    ![r].outcome = exit.outcome,
                    ![r].value = exit.value]
             /\ error_log' = error_log \o exit.logged
             /\ request' = [request EXCEPT ![r].ctx_params =
                    CtxAfterFailure(@, frame[r].parsed_args)]
             /\ UNCHANGED cls_fields_set
    /\ UNCHANGED <<dmo, ctor>>

Header(r) == Stage(r, "header")
Path(r) == Stage(r, "path")
Query(r) == Stage(r, "query")
FormOrBody(r) == Stage(r, "form_or_body")
All(r) == Stage(r, "all")

\* request.ctx.params = parsed_args; return parsed_args
Store(r) ==
    /\ frame[r] # NoFrame
    /\ frame[r].pc = "store"
    /\ request' = [request EXCEPT ![r].ctx_params =
            CtxAfterStore(@, frame[r].parsed_args)]
    /\ frame' = [frame EXCEPT ![r].pc = "RETURNED",
                              ![r].outcome = "returned",
                              ![r].value = frame[r].parsed_args]
    /\ UNCHANGED <<dmo, ctor, error_log, cls_fields_set>>

Init ==
    /\ dmo = NoDmo
    /\ ctor = NoCall
    /\ error_log = <<>>
    /\ cls_fields_set = {}
    /\ request = [r \in {1} |-> NoRequest]
    /\ frame = [r \in {1} |-> NoFrame]

Next ==
    \/ NewDescriptor
    \/ \E r \in Reqs : Receive(r)
    \/ \E r \in Reqs : Header(r)
    \/ \E r \in Reqs : Path(r)
    \/ \E r \in Reqs : Query(r)
    \/ \E r \in Reqs : FormOrBody(r)
    \/ \E r \in Reqs : All(r)
    \/ \E r \in Reqs : Store(r)

Spec == Init /\ [][Next]_vars

(***************************************************************************)
(* Several requests in flight against one descriptor: the descriptor is    *)
(* already built, every request has arrived, and the stages of the calls   *)
(* interleave in any order.                                                *)
(***************************************************************************)
SharedDescriptors ==
    {a \in CtorArgs :
        /\ InitAssertion(a) = None
        /\ a.header = HeaderModel /\ a.path = PathModel
        /\ a.query = QueryModel /\ a.all = AllModel
        /\ Truthy(a.form) \/ Truthy(a.body)
        /\ a.error = None}

SharedEntries ==
    {[src |-> "path", key |-> "a", val |-> "good"],
     [src |-> "query", key |-> "b", val |-> "good"]}

SharedRequests ==
    {MkRequest(E, jk) : E \in SUBSET SharedEntries, jk \in {"map", "raises"}}

InitShared ==
    /\ dmo \in SharedDescriptors
    /\ ctor = [args |-> dmo, raised |-> None]
    /\ error_log = <<>>
    /\ cls_fields_set = {}
    /\ request \in [1..NumRequests -> SharedRequests]
    /\ frame = [r \in 1..NumRequests |-> FrameAtEntry(dmo, cls_fields_set)]

NextShared ==
    \/ \E r \in Reqs : Header(r)
    \/ \E r \in Reqs : Path(r)
    \/ \E r \in Reqs : Query(r)
    \/ \E r \in Reqs : FormOrBody(r)
    \/ \E r \in Reqs : All(r)
    \/ \E r \in Reqs : Store(r)

SpecShared == InitShared /\ [][NextShared]_vars

(***************************************************************************)
(* Vocabulary of the properties.                                           *)
(***************************************************************************)
Entered(r) == frame[r] # NoFrame
Returned(r) == Entered(r) /\ frame[r].pc = "RETURNED"
Failed(r) == Entered(r) /\ frame[r].pc = "FAILED"
Errored(r) == Entered(r) /\ frame[r].pc = "ERRORED"
RanAll(r) == Entered(r) /\ frame[r].params # None

ConfiguredStages(d) ==
    LET IsConfigured(stage) == Configured(d, stage)
    IN  SelectSeq(StageOrder, IsConfigured)

\* the stage a call is at, or was at when an except clause ended it
StageReached(r) ==
    PcAfter(dmo, IF frame[r].done = <<>> THEN 0
                 ELSE StageIndex(frame[r].done[Len(frame[r].done)]))

\* the stages of a successful call that export key k
Exporting(r, k) ==
    {i \in 1..Len(StageOrder) :
        /\ Configured(dmo, StageOrder[i])
        /\ k \in DOMAIN Attempt(dmo, request[r], StageOrder[i]).dict}

Latest(S) == CHOOSE i \in S : \A j \in S : j <= i

(***************************************************************************)
(* C1: the configured stages are merged in the order header, path, query,  *)
(* form-or-body, all, and for every key exported by two or more of them    *)
(* the returned result holds the value exported by the latest one, a       *)
(* schema default included.                                                *)
(***************************************************************************)
C1_LatestStageWins ==
    \A r \in Reqs : Returned(r) =>
        /\ frame[r].done = ConfiguredStages(dmo)
        /\ \A k \in Keys :
            Cardinality(Exporting(r, k)) >= 2 =>
                frame[r].value[k] =
                    Attempt(dmo, request[r],
                            StageOrder[Latest(Exporting(r, k))]).dict[k]

\* an earlier stage was given k explicitly, the latest one only defaults it
C1_Witness ==
    \E r \in Reqs : \E k \in Keys :
        /\ Returned(r)
        /\ Cardinality(Exporting(r, k)) >= 2
        /\ LET last == Attempt(dmo, request[r],
                               StageOrder[Latest(Exporting(r, k))])
           IN  /\ k \notin last.fields_set
               /\ frame[r].value[k] = last.dict[k]
               /\ \E i \in Exporting(r, k) :
                    LET early == Attempt(dmo, request[r], StageOrder[i])
                    IN  k \in early.fields_set /\ early.dict[k] # last.dict[k]

(***************************************************************************)
(* C2: the raw mapping handed to the all schema is built from header       *)
(* values, then path values, then collapsed query values, then the body    *)
(* part, later overwriting earlier.                                        *)
(***************************************************************************)
C2_AllRawOrder ==
    \A r \in Reqs : RanAll(r) =>
        frame[r].params =
            Update(Update(Update(request[r].headers, request[r].match_info),
                          Collapse(request[r].args)),
                   frame[r].body_params)

(***************************************************************************)
(* C3: with a callable error policy (an HTTP error type is accepted only   *)
(* as one) a validation failure ends in an instance of that type built     *)
(* from "<field_name> <message>" of the first failing field being raised.  *)
(***************************************************************************)
C3_RaisesErrorType ==
    \A r \in Reqs : Failed(r) /\ IsCallable(dmo.error) =>
        /\ frame[r].outcome = "raised"
        /\ frame[r].value =
             [type |-> dmo.error.name,
              message |-> frame[r].exc.errors[1].loc[1] \o " "
                          \o frame[r].exc.errors[1].msg]

(***************************************************************************)
(* C3, amended: with a callable error policy a validation failure makes    *)
(* validate call the policy with the request and the validation error and  *)
(* return what the call returns; validate builds nothing from the message, *)
(* logs nothing and raises nothing itself, so the call is left by an       *)
(* exception only when the policy raises one.                              *)
(***************************************************************************)
C3_CallsPolicy ==
    \A r \in Reqs : Failed(r) /\ IsCallable(dmo.error) =>
        /\ error_log = <<>>
        /\ \/ /\ frame[r].outcome = "returned"
              /\ frame[r].value =
                    [call |-> dmo.error.name, args |-> <<r, frame[r].exc>>]
           \/ /\ frame[r].outcome = "raised"
              /\ frame[r].value = HandlerError

C3_Witness ==
    \E r \in Reqs :
        /\ Failed(r) /\ IsCallable(dmo.error)
        /\ Len(frame[r].exc.errors) >= 2
        /\ frame[r].outcome = "returned"

(***************************************************************************)
(* C4: in the all stage the body part is the JSON body when it is a        *)
(* mapping and the collapsed form fields in every other case.              *)
(***************************************************************************)
CollapsedForm(r) ==
    [k \in DOMAIN request[r].form |->
        IF Len(request[r].form[k]) = 1 THEN request[r].form[k][1]
        ELSE [l |-> request[r].form[k]]]

C4_FormInEveryOtherCase ==
    \A r \in Reqs : RanAll(r) =>
        frame[r].body_params =
            IF request[r].json.kind = "map" THEN request[r].json.map
            ELSE CollapsedForm(r)

(***************************************************************************)
(* C4, amended: the body part is the JSON body when it is a mapping, the   *)
(* collapsed form fields when reading the JSON body raises, and empty when *)
(* the JSON body reads as a non-mapping; so with an unreadable JSON body a *)
(* single-valued form field is in the body part, and in the raw mapping    *)
(* unless a header or path parameter of the same name overwrites it.       *)
(***************************************************************************)
C4_FormOnlyWhenJsonRaises ==
    \A r \in Reqs : RanAll(r) =>
        /\ frame[r].body_params =
            CASE request[r].json.kind = "map"    -> request[r].json.map
              [] request[r].json.kind = "raises" -> CollapsedForm(r)
              [] request[r].json.kind = "nonmap" -> EmptyDict
        /\ request[r].json.kind = "raises" =>
            \A k \in DOMAIN request[r].form :
                Len(request[r].form[k]) = 1 =>
                    /\ frame[r].body_params[k] = request[r].form[k][1]
                    /\ k \notin DOMAIN request[r].headers
                                \cup DOMAIN request[r].match_info
                        => frame[r].params[k] = request[r].form[k][1]

C4_Witness ==
    \E r \in Reqs : \E k \in Keys :
        /\ RanAll(r)
        /\ request[r].json.kind = "raises"
        /\ k \in DOMAIN request[r].form
        /\ request[r].form[k] = <<PyStr("4")>>
        /\ frame[r].params[k] = PyStr("4")

(***************************************************************************)
(* C5: with only a query schema and one value per query key, the returned  *)
(* result has exactly the key/value pairs of the query object's dict().    *)
(***************************************************************************)
OnlyQuery(d) == ConfiguredStages(d) = <<"query">>

C5_ResultIsQueryDict ==
    \A r \in Reqs :
        /\ Returned(r) /\ OnlyQuery(dmo)
        /\ \A k \in DOMAIN request[r].args : Len(request[r].args[k]) = 1
        => frame[r].value =
             Construct(dmo.query,
                       [k \in DOMAIN request[r].args |->
                           request[r].args[k][1]]).dict

(***************************************************************************)
(* C6: with no error policy a validation failure logs                      *)
(* "<first_field> <first_message>" of the first entry of the failure list  *)
(* and then raises InvalidUsage with that message, not a ServerError.      *)
(***************************************************************************)
C6_DefaultLogsAndRaisesInvalidUsage ==
    \A r \in Reqs : Failed(r) /\ dmo.error = None =>
        LET first == frame[r].exc.errors[1]
            text == first.loc[1] \o " " \o first.msg
        IN  /\ frame[r].exc =
                 Attempt(dmo, request[r], StageReached(r)).exc
            /\ error_log = <<text>>
            /\ frame[r].outcome = "raised"
            /\ frame[r].value = [type |-> "InvalidUsage", message |-> text]

C6_Witness ==
    \E r \in Reqs :
        /\ Failed(r) /\ dmo.error = None
        /\ Len(frame[r].exc.errors) >= 2
        /\ frame[r].exc.errors[1].msg # frame[r].exc.errors[2].msg
        /\ frame[r].value.type = "InvalidUsage"

(***************************************************************************)
(* C7: with error=True a validation failure in any stage leaves validate   *)
(* by raising the original validation error unmodified: no InvalidUsage,   *)
(* no ServerError, no handler call, nothing logged.                        *)
(***************************************************************************)
C7_TrueReraisesOriginal ==
    \A r \in Reqs : Failed(r) /\ dmo.error = True =>
        /\ frame[r].outcome = "raised"
        /\ frame[r].value = Attempt(dmo, request[r], StageReached(r)).exc
        /\ frame[r].value.type = "ValidationError"
        /\ error_log = <<>>

C7_Witness ==
    \E r \in Reqs :
        /\ Failed(r) /\ dmo.error = True
        /\ frame[r].done # <<>>
        /\ frame[r].value.type = "ValidationError"

(***************************************************************************)
(* C8: request.ctx.params is written exactly when every configured stage   *)
(* has validated, and then holds the returned object; a call ended by a    *)
(* validation error (whatever the policy) or by an unexpected error leaves *)
(* request.ctx.params unchanged, returns no merged result and takes no     *)
(* further step.                                                           *)
(***************************************************************************)
C8_StoredIffAllStagesPassed ==
    /\ [](\A r \in Reqs : Entered(r) =>
            /\ request[r].ctx_params # Unset <=> Returned(r)
            /\ Returned(r) =>
                /\ frame[r].done = ConfiguredStages(dmo)
                /\ frame[r].outcome = "returned"
                /\ frame[r].value = frame[r].parsed_args
                /\ request[r].ctx_params = frame[r].value
            /\ Failed(r) \/ Errored(r) =>
                /\ request[r].ctx_params = Unset
                /\ frame[r].done # ConfiguredStages(dmo)
                /\ ~(/\ frame[r].outcome = "returned"
                     /\ frame[r].value = frame[r].parsed_args))
    /\ [][\A r \in Reqs :
            Entered(r) /\ frame[r].pc \in {"FAILED", "ERRORED"} =>
                frame'[r] = frame[r] /\ request'[r] = request[r]]_vars

\* a call ended by a handler that returned, after a stage had been merged
C8_Witness ==
    \E r \in Reqs :
        /\ Failed(r)
        /\ frame[r].outcome = "returned"
        /\ frame[r].done # <<>>
        /\ frame[r].parsed_args # EmptyDict
        /\ request[r].ctx_params = Unset

(***************************************************************************)
(* C9: a constructor call with both form and body fails: the message is    *)
(* logged, ServerError is raised, no descriptor is obtained, and validate  *)
(* never runs with both a form and a body schema.                          *)
(***************************************************************************)
C9_FormAndBodyRejected ==
    /\ ctor # NoCall /\ Truthy(ctor.args.body) /\ Truthy(ctor.args.form) =>
        /\ dmo = NoDmo
        /\ ctor.raised =
            [type |-> "ServerError",
             message |-> "sanic-dantic: body and form cannot be used at the same time."]
        /\ error_log =
            <<"sanic-dantic: body and form cannot be used at the same time.">>
    /\ dmo # NoDmo => ~(Truthy(dmo.body) /\ Truthy(dmo.form))
    /\ \A r \in Reqs : Entered(r) =>
        dmo # NoDmo /\ ~(Truthy(dmo.body) /\ Truthy(dmo.form))

C9_Witness ==
    /\ ctor # NoCall
    /\ ctor.args.body = BodyModel /\ ctor.args.form = FormModel
    /\ ctor.raised # None
    /\ dmo = NoDmo

(***************************************************************************)
(* C10: calls for different requests sharing one descriptor, interleaved   *)
(* in any order, each work on a result made of their own request's values  *)
(* only, explicitly-provided-field set included; the class-level           *)
(* __fields_set__ of ParsedArgsObj and the descriptor are never modified.  *)
(***************************************************************************)
LastDone(r) == frame[r].done[Len(frame[r].done)]

\* the stages merged so far that were given at least one field explicitly
ExplicitStages(r) ==
    {i \in 1..Len(frame[r].done) :
        Attempt(dmo, request[r], frame[r].done[i]).fields_set # {}}

C10_NoSharedState ==
    /\ [](/\ cls_fields_set = {}
          /\ dmo = ctor.args
          /\ \A r \in Reqs : Entered(r) =>
                /\ DOMAIN frame[r].parsed_args \subseteq
                        Keys \cup {"__fields_set__"}
                /\ \A k \in DOMAIN frame[r].parsed_args \cap Keys :
                    frame[r].parsed_args[k] =
                        Attempt(dmo, request[r], LastDone(r)).dict[k]
                /\ "__fields_set__" \in DOMAIN frame[r].parsed_args <=>
                        ExplicitStages(r) # {}
                /\ ExplicitStages(r) # {} =>
                    frame[r].parsed_args["__fields_set__"] =
                        PySet(Attempt(dmo, request[r],
                               frame[r].done[Latest(ExplicitStages(r))]
                              ).fields_set))
    /\ [][dmo' = dmo /\ cls_fields_set' = cls_fields_set]_vars

\* two calls in flight at once whose results differ
C10_Witness ==
    \E r1, r2 \in Reqs :
        /\ r1 # r2
        /\ frame[r1].outcome = "running" /\ frame[r2].outcome = "running"
        /\ Len(frame[r1].done) >= 2 /\ Len(frame[r2].done) >= 2
        /\ "__fields_set__" \in DOMAIN frame[r1].parsed_args
        /\ "__fields_set__" \in DOMAIN frame[r2].parsed_args
        /\ frame[r1].parsed_args["__fields_set__"]
                # frame[r2].parsed_args["__fields_set__"]

====
